---- MODULE Spec2Model ----
(***************************************************************************)
(* Model of orangecontrib/prototypes/widgets/pythagorastreeviewer.py:      *)
(* the depth-limited drawing of PythagorasTreeViewer (two deques and a     *)
(* handle table), the layout and the TreeNodes computed by PythagorasTree, *)
(* the merging of rules and their aggregation by SklTreeAdapter.rules, and *)
(* the hover timer of InteractiveSquareGraphicsItem.                       *)
(***************************************************************************)
EXTENDS Integers, Sequences, FiniteSets, TLC

(***************************************************************************)
(* Bounds of the model.                                                    *)
(***************************************************************************)
\* set_depth_limit is called with the limits -NegLimits .. MaxLimit
NegLimits == 2
MaxLimit == 4
\* set_tree is called at most MaxGen times (each call builds fresh TreeNodes)
MaxGen == 2
\* a call that seeds the frontier is taken while the frontier is shorter
MaxSeeds == 3
\* one PythagorasTree instance serves at most MaxCalls top-level calls
MaxCalls == 2
\* thresholds and rule values are 1 .. MaxValue
MaxValue == 3
\* at most MaxLeaves hover-leave events are delivered
MaxLeaves == 3

(***************************************************************************)
(* Tree adapters the viewer is given.  An adapter is named; Children gives *)
(* label -> children(label).  The root label is 0, as in SklTreeAdapter.   *)
(***************************************************************************)
Single == [n \in {0} |-> <<>>]

Balanced ==
  [n \in 0..6 |-> CASE n = 0 -> <<1, 4>>
                    [] n = 1 -> <<2, 3>>
                    [] n = 4 -> <<5, 6>>
                    [] OTHER -> <<>>]

Skewed ==
  [n \in 0..6 |-> CASE n = 0 -> <<1, 2>>
                    [] n = 2 -> <<3, 4>>
                    [] n = 4 -> <<5, 6>>
                    [] OTHER -> <<>>]

\* adapters that only the layout engine is run on
Chain ==
  [n \in 0..3 |-> CASE n = 0 -> <<1>>
                    [] n = 1 -> <<2>>
                    [] n = 2 -> <<3>>
                    [] OTHER -> <<>>]

Mixed ==
  [n \in 0..6 |-> CASE n = 0 -> <<1, 2>>
                    [] n = 1 -> <<3>>
                    [] n = 2 -> <<4, 5>>
                    [] n = 3 -> <<6>>
                    [] OTHER -> <<>>]

Ternary ==
  [n \in 0..6 |-> CASE n = 0 -> <<1, 2, 3>>
                    [] n = 1 -> <<4, 5>>
                    [] n = 3 -> <<6>>
                    [] OTHER -> <<>>]

Adapters == {"Single", "Balanced", "Skewed"}

LayoutAdapters == Adapters \cup {"Chain", "Mixed", "Ternary"}

\* children(node) of the adapter
Children(a) ==
  CASE a = "Single" -> Single
    [] a = "Balanced" -> Balanced
    [] a = "Skewed" -> Skewed
    [] a = "Chain" -> Chain
    [] a = "Mixed" -> Mixed
    [] a = "Ternary" -> Ternary

root == 0

Limits == (0 - NegLimits)..MaxLimit

Labels(a) == DOMAIN Children(a)

AllLabels == UNION {Labels(a) : a \in LayoutAdapters}

ROOT_PARENT_INDEX == 0 - 1

\* parent(node) of the adapter; ROOT_PARENT_INDEX for the root
AdapterParent(a, n) ==
  IF \E p \in Labels(a) : \E i \in 1..Len(Children(a)[p]) : Children(a)[p][i] = n
  THEN CHOOSE p \in Labels(a) :
         \E i \in 1..Len(Children(a)[p]) : Children(a)[p][i] = n
  ELSE ROOT_PARENT_INDEX

RECURSIVE Depth(_, _)
Depth(a, n) == IF n = root THEN 0 ELSE 1 + Depth(a, AdapterParent(a, n))

Max(S) == CHOOSE x \in S : \A y \in S : y <= x

\* the adapter's max_depth property
max_depth(a) == Max({Depth(a, n) : n \in Labels(a)})

\* Weights are counted in units of 1/WeightUnit and angles in units of
\* pi/PiUnits, so that weight * pi is a whole number of angle units.
WeightUnit == 2
PiUnits == 4

\* weight(node) of the adapter, in units of 1/WeightUnit.  An only child
\* weighs 1 and each of two children 1/2; the three children of the root of
\* Ternary weigh 1/2 each (weights that do not sum to 1).
Weight(a, n) ==
  IF Len(Children(a)[AdapterParent(a, n)]) = 1 THEN WeightUnit ELSE 1

(***************************************************************************)
(* State of one PythagorasTreeViewer and of the scene it draws into.       *)
(***************************************************************************)
VARIABLES
  tree_adapter,    \* _tree_adapter: the name of an adapter, or "None"
  tree,            \* _tree: {} for None, else {the root TreeNode}
  gen,             \* number of TreeNode trees built so far (object identity)
  depth_limit,     \* _depth_limit
  drawn_nodes,     \* _drawn_nodes: deque of <<depth, TreeNode>>
  frontier,        \* _frontier: deque of <<depth, TreeNode>>
  square_objects,  \* _square_objects: label -> graphics item
  graphics_item,   \* TreeNodes whose graphics_item field is set
  scene,           \* graphics items that are in the scene
  shown,           \* graphics items of the scene that are visible
  events,          \* create/show/hide calls made by the last operation
  created,         \* label -> items constructed since the tree was set
  scenario         \* progress of the calls since set_tree along DepthLimitScenario

viewerVars == <<tree_adapter, tree, gen, depth_limit, drawn_nodes, frontier,
                square_objects, graphics_item, scene, shown, events, created,
                scenario>>

(***************************************************************************)
(* State of one PythagorasTree (the layout engine) and the values of its   *)
(* last top-level pythagoras_tree call.                                    *)
(***************************************************************************)
VARIABLES
  eng_adapter,     \* the adapter the engine is called with, or "None"
  slopes,          \* _slopes: Square -> list of alpha
  squares,         \* label -> square of the TreeNode built for it
  prev_angles,     \* label -> prev_angles that _compute_child used for it
  alphas,          \* label -> alpha that _compute_child used for it
  start,           \* {} or {the node argument of the last top-level call}
  clean_start,     \* _slopes was empty when the traversal began
  calls,           \* top-level calls made on this engine
  nodes,           \* the TreeNode objects the last call constructed, in order
  result           \* {} or {the TreeNode object the last call returned}

engineVars == <<eng_adapter, slopes, squares, prev_angles, alphas, start,
                clean_start, calls, nodes, result>>

(***************************************************************************)
(* Rules: a receiver rule and the outcome of its merge_with calls.         *)
(***************************************************************************)
VARIABLES
  self_rule,       \* the rule whose merge_with is called
  arg_rule,        \* the argument of the last merge_with call
  merged           \* what the last merge_with call returned or raised

ruleVars == <<self_rule, arg_rule, merged>>

(***************************************************************************)
(* A SklTreeAdapter over a tree with continuous splits, and the lists its  *)
(* memoized rules(node) has returned.                                      *)
(***************************************************************************)
VARIABLES
  skl_tree,        \* _tree: children, feature and threshold of each node
  rules_cache      \* lru_cache of rules: label -> list of rules

sklVars == <<skl_tree, rules_cache>>

(***************************************************************************)
(* The QTimer shared by all InteractiveSquareGraphicsItems.                *)
(***************************************************************************)
VARIABLES
  timer_active,    \* the single-shot timer is running
  connections,     \* slots connected to timer.timeout: the items that left
  restored         \* items whose restore effect the last event has run

hoverVars == <<timer_active, connections, restored>>

vars == <<viewerVars, engineVars, ruleVars, sklVars, hoverVars>>

\* A TreeNode is identified by the tree it was built for and its label; a
\* graphics item is identified by the TreeNode it was constructed for.
TreeNode(a, g, l) == [adapter |-> a, gen |-> g, label |-> l]

\* node.children, in the order pythagoras_tree built them
NodeChildren(node) ==
  [i \in 1..Len(Children(node.adapter)[node.label]) |->
     TreeNode(node.adapter, node.gen, Children(node.adapter)[node.label][i])]

Last(s) == s[Len(s)]
Front(s) == SubSeq(s, 1, Len(s) - 1)

\* the part of the viewer's state that _draw_tree and _clear_scene work on
ViewerState ==
  [drawn_nodes |-> drawn_nodes, frontier |-> frontier,
   square_objects |-> square_objects, graphics_item |-> graphics_item,
   scene |-> scene, shown |-> shown, events |-> <<>>, created |-> created]

\* _depth_was_decreased
DepthWasDecreased(st, limit) ==
  IF st.drawn_nodes = <<>> THEN FALSE
  ELSE Last(st.drawn_nodes)[1] > limit

\* QGraphicsItem.hide() of the item stored under the node's label
Hide(st, node) ==
  IF node.label \in DOMAIN st.square_objects
  THEN [st EXCEPT !.shown = @ \ {st.square_objects[node.label]},
                  !.events = Append(@, <<"hide", st.square_objects[node.label]>>)]
  ELSE st

\* ShrinkLoop that never moves a popped node to the frontier
RECURSIVE ShrinkLoopForgetful(_, _)
ShrinkLoopForgetful(st, limit) ==
  IF st.drawn_nodes = <<>> THEN st
  ELSE LET depth == Last(st.drawn_nodes)[1]
           node == Last(st.drawn_nodes)[2]
       IN IF depth <= limit THEN st
          ELSE ShrinkLoopForgetful(
                 Hide([st EXCEPT !.drawn_nodes = Front(@)], node), limit)

\* the first loop of _draw_tree: pop from the back of _drawn_nodes
RECURSIVE ShrinkLoop(_, _)
ShrinkLoop(st, limit) ==
  IF st.drawn_nodes = <<>> THEN st
  ELSE LET depth == Last(st.drawn_nodes)[1]
           node == Last(st.drawn_nodes)[2]
       IN IF depth <= limit THEN st
          ELSE ShrinkLoop(
                 Hide([st EXCEPT
                         !.drawn_nodes = Front(@),
                         !.frontier = IF depth = limit + 1
                                      THEN <<(<<depth, node>>)>> \o @
                                      ELSE @],
                      node),
                 limit)

\* the else branch of the second loop: construct the graphics item.  The
\* constructor sets tree_node.graphics_item; the item is a child of
\* _item_group, hence in the scene and visible.
CreateItem(st, node) ==
  [st EXCEPT
     !.square_objects = [l \in DOMAIN @ \cup {node.label} |->
                           IF l = node.label THEN node ELSE @[l]],
     !.graphics_item = @ \cup {node},
     !.scene = @ \cup {node},
     !.shown = @ \cup {node},
     !.created = [@ EXCEPT ![node.label] = @ + 1],
     !.events = Append(@, <<"create", node>>)]

\* QGraphicsItem.show() of the item stored under the node's label
Show(st, node) ==
  [st EXCEPT !.shown = @ \cup {st.square_objects[node.label]},
             !.events = Append(@, <<"show", st.square_objects[node.label]>>)]

\* ShowOrCreate that constructs a new item whether or not one exists
AlwaysCreate(st, node) == CreateItem(st, node)

ShowOrCreate(st, node) ==
  IF node.label \in DOMAIN st.square_objects
  THEN Show(st, node)
  ELSE CreateItem(st, node)

\* ExtendFrontier that puts the children at the front (extendleft)
ExtendFrontierLeft(fr, depth, node) ==
  [i \in 1..Len(NodeChildren(node)) |->
     <<depth + 1, NodeChildren(node)[Len(NodeChildren(node)) + 1 - i]>>] \o fr

\* _frontier.extend((depth + 1, c) for c in node.children)
ExtendFrontier(fr, depth, node) ==
  fr \o [i \in 1..Len(NodeChildren(node)) |-> <<depth + 1, NodeChildren(node)[i]>>]

\* GrowLoop that stops one level early (depth >= limit)
RECURSIVE GrowLoopOffByOne(_, _)
GrowLoopOffByOne(st, limit) ==
  IF st.frontier = <<>> THEN st
  ELSE LET depth == Head(st.frontier)[1]
           node == Head(st.frontier)[2]
       IN IF depth >= limit THEN st
          ELSE GrowLoopOffByOne(
                 ShowOrCreate([st EXCEPT
                                 !.drawn_nodes = Append(@, <<depth, node>>),
                                 !.frontier = ExtendFrontier(Tail(@), depth, node)],
                              node),
                 limit)

\* the second loop of _draw_tree: pop from the front of _frontier
RECURSIVE GrowLoop(_, _)
GrowLoop(st, limit) ==
  IF st.frontier = <<>> THEN st
  ELSE LET depth == Head(st.frontier)[1]
           node == Head(st.frontier)[2]
       IN IF depth > limit THEN st
          ELSE GrowLoop(
                 ShowOrCreate([st EXCEPT
                                 !.drawn_nodes = Append(@, <<depth, node>>),
                                 !.frontier = ExtendFrontier(Tail(@), depth, node)],
                              node),
                 limit)

\* SeedFrontier that seeds the children of the root in place of the root
SeedChildren(st, rootNode) ==
  IF st.drawn_nodes = <<>>
  THEN [st EXCEPT !.frontier = ExtendFrontier(<<>>, 0, rootNode) \o @]
  ELSE st

\* SeedFrontier that seeds on every call
SeedAlways(st, rootNode) ==
  [st EXCEPT !.frontier = <<(<<0, rootNode>>)>> \o @]

\* if not self._drawn_nodes: self._frontier.appendleft((0, root))
SeedFrontier(st, rootNode) ==
  IF st.drawn_nodes = <<>>
  THEN [st EXCEPT !.frontier = <<(<<0, rootNode>>)>> \o @]
  ELSE st

\* if was_decreased: self._frontier.clear()
ClearIfDecreased(st, limit) ==
  IF DepthWasDecreased(st, limit) THEN [st EXCEPT !.frontier = <<>>] ELSE st

\* _draw_tree(root) with self._tree = t and self._depth_limit = limit
DrawTree(st, t, limit) ==
  IF t = {} THEN st
  ELSE LET rootNode == CHOOSE n \in t : TRUE
       IN GrowLoop(ShrinkLoop(ClearIfDecreased(SeedFrontier(st, rootNode), limit),
                              limit),
                   limit)

\* _squares(): the graphics_item of every entry of _drawn_nodes
Squares(st) ==
  {st.drawn_nodes[i][2] : i \in 1..Len(st.drawn_nodes)} \cap st.graphics_item

\* _clear_scene that leaves the handle table as it is
ClearSceneKeepObjects(st) ==
  [st EXCEPT !.scene = @ \ Squares(st),
             !.shown = @ \ Squares(st),
             !.frontier = <<>>,
             !.drawn_nodes = <<>>]

\* _clear_scene
ClearScene(st) ==
  [st EXCEPT !.scene = @ \ Squares(st),
             !.shown = @ \ Squares(st),
             !.frontier = <<>>,
             !.drawn_nodes = <<>>,
             !.square_objects = <<>>]

(***************************************************************************)
(* Numbers of the layout.  With angles that are multiples of pi/4 every    *)
(* coordinate and length is a + b*sqrt(2) with integers a and b, written   *)
(* <<a, b>>.  Starting from a square of length 200 every halving below is  *)
(* exact for the squares of the first four levels.                         *)
(***************************************************************************)
Zero == <<0, 0>>
NAdd(x, y) == <<x[1] + y[1], x[2] + y[2]>>
NSub(x, y) == <<x[1] - y[1], x[2] - y[2]>>
NNeg(x) == <<0 - x[1], 0 - x[2]>>
NHalf(x) == <<x[1] \div 2, x[2] \div 2>>
\* x * sqrt(2)
NSqrt2(x) == <<2 * x[2], x[1]>>

\* x * cos(k * pi/4)
MulCos(x, k) ==
  LET r == k % (2 * PiUnits)
  IN CASE r = 0 -> x
       [] r = 4 -> NNeg(x)
       [] r \in {2, 6} -> Zero
       [] r \in {1, 7} -> NHalf(NSqrt2(x))
       [] r \in {3, 5} -> NNeg(NHalf(NSqrt2(x)))

\* x * sin(k * pi/4)
MulSin(x, k) == MulCos(x, k - 2)

Point(x, y) == <<x, y>>
Square(center, length, angle) ==
  [center |-> center, length |-> length, angle |-> angle]

\* _get_point_on_square_edge
GetPointOnSquareEdge(center, length, angle) ==
  Point(NAdd(center[1], MulCos(NHalf(length), angle)),
        NAdd(center[2], MulSin(NHalf(length), angle)))

\* _rotate_point
RotatePoint(point, around, alpha) ==
  LET tx == NSub(point[1], around[1])
      ty == NSub(point[2], around[2])
  IN Point(NAdd(NSub(MulCos(tx, alpha), MulSin(ty, alpha)), around[1]),
           NAdd(NAdd(MulSin(tx, alpha), MulCos(ty, alpha)), around[2]))

\* _compute_center
ComputeCenter(initial_square, length, alpha, base_angle) ==
  LET parent_center == initial_square.center
      parent_length == initial_square.length
      parent_angle == initial_square.angle
      t0 == GetPointOnSquareEdge(parent_center, parent_length, parent_angle)
      square_diagonal_length == NSqrt2(parent_length)
      edge0 == GetPointOnSquareEdge(parent_center, square_diagonal_length,
                                    parent_angle - PiUnits \div 4)
      edge == IF base_angle # 0 THEN RotatePoint(edge0, t0, base_angle) ELSE edge0
      t1 == RotatePoint(edge, t0, alpha)
      t2 == Point(NHalf(NAdd(t1[1], edge[1])), NHalf(NAdd(t1[2], edge[2])))
      slope == parent_angle - PiUnits \div 2 + alpha \div 2
  IN GetPointOnSquareEdge(t2, length, slope + base_angle)

\* the initial square _calculate_tree passes: Square(Point(0, 0), 200, -pi / 2)
RootLength == 200
InitialSquare == Square(Point(Zero, Zero), <<RootLength, 0>>, 0 - PiUnits \div 2)

\* alpha = weight * pi
Alpha(weight) == weight * (PiUnits \div WeightUnit)

RECURSIVE SumSeq(_)
SumSeq(q) == IF q = <<>> THEN 0 ELSE Head(q) + SumSeq(Tail(q))

Ext(f, k, v) == [x \in DOMAIN f \cup {k} |-> IF x = k THEN v ELSE f[x]]

\* self._slopes[parent_square] of the defaultdict(list)
SlopesOf(memo, parent_square) ==
  IF parent_square \in DOMAIN memo THEN memo[parent_square] ELSE <<>>

\* RecordSlope that forgets the alpha of the child
RecordSlopeNever(memo, parent_square, alpha) ==
  Ext(memo, parent_square, SlopesOf(memo, parent_square))

\* self._slopes[parent_square].append(alpha)
RecordSlope(memo, parent_square, alpha) ==
  Ext(memo, parent_square, Append(SlopesOf(memo, parent_square), alpha))

\* TreeNode(label, square, parent, children) as an object of the heap: parent
\* is <<"label", l>> while it holds a label of the adapter and <<"node", k>>
\* once it holds the k-th constructed TreeNode; children holds such k.
NewTreeNode(label, square, parent, children) ==
  [label |-> label, square |-> square, parent |-> <<"label", parent>>,
   children |-> children]

\* the linking pass left out
LinkParentsNever(heap, obj, children) == heap

\* for c in children: c.parent = obj
LinkParents(heap, obj, children) ==
  [k \in DOMAIN heap |->
     IF \E i \in 1..Len(children) : children[i] = k
     THEN [heap[k] EXCEPT !.parent = <<"node", obj>>]
     ELSE heap[k]]

\* The traversal: acc holds _slopes, the heap of TreeNodes and what the calls
\* have computed so far; acc.obj is the TreeNode the last call returned and
\* acc.children the tuple the generator has built.
RECURSIVE PythagorasTreeRec(_, _, _, _)
RECURSIVE ComputeChildren(_, _, _, _, _, _)

\* _compute_child
ComputeChild(a, parent_square, node, acc) ==
  LET alpha == Alpha(Weight(a, node))
      length == MulSin(parent_square.length, alpha \div 2)
      prev == SumSeq(SlopesOf(acc.slopes, parent_square))
      center == ComputeCenter(parent_square, length, alpha, prev)
      angle == parent_square.angle - PiUnits \div 2 + prev + alpha \div 2
      square == Square(center, length, angle)
  IN PythagorasTreeRec(a, node, square,
       [acc EXCEPT !.slopes = RecordSlope(@, parent_square, alpha),
                   !.prev_angles = Ext(@, node, prev),
                   !.alphas = Ext(@, node, alpha)])

\* the generator of pythagoras_tree: the children in adapter order
ComputeChildren(a, node, square, i, children, acc) ==
  IF i > Len(Children(a)[node]) THEN [acc EXCEPT !.children = children]
  ELSE LET child == ComputeChild(a, square, Children(a)[node][i], acc)
       IN ComputeChildren(a, node, square, i + 1,
                          Append(children, child.obj), child)

\* pythagoras_tree
PythagorasTreeRec(a, node, square, acc) ==
  LET built == ComputeChildren(a, node, square, 1, <<>>,
                 [acc EXCEPT !.slopes = IF node = root THEN <<>> ELSE @,
                             !.squares = Ext(@, node, square)])
      obj == Len(built.nodes) + 1
  IN [built EXCEPT
        !.nodes = LinkParents(
                    Append(@, NewTreeNode(node, square, AdapterParent(a, node),
                                          built.children)),
                    obj, built.children),
        !.obj = obj]

(***************************************************************************)
(* Rules.  A rule is a record that carries its class in kind; what a call  *)
(* raises, and the None a call returns, are records of other kinds.        *)
(***************************************************************************)
AttrNames == {"x", "y"}
Values == 1..MaxValue

Raised(error) == [kind |-> "raised", error |-> error]
None == [kind |-> "None"]
NoCall == [kind |-> "no call"]
IsRaised(r) == r.kind = "raised"

\* DiscreteRule.__init__
DiscreteRule(attr_name, eq, value) ==
  [kind |-> "DiscreteRule", attr_name |-> attr_name, sign |-> eq, value |-> value]

\* ContinuousRule.__init__
ContinuousRule(attr_name, gt, value, inclusive) ==
  [kind |-> "ContinuousRule", attr_name |-> attr_name, sign |-> gt,
   value |-> value, inclusive |-> inclusive]

\* IntervalRule.__init__; an argument whose evaluation raised never reaches it
IntervalRule(attr_name, left_rule, right_rule) ==
  IF IsRaised(left_rule) THEN left_rule
  ELSE IF IsRaised(right_rule) THEN right_rule
  ELSE IF left_rule.kind # "ContinuousRule" THEN Raised("AttributeError")
  ELSE IF right_rule.kind # "ContinuousRule" THEN Raised("AttributeError")
  ELSE [kind |-> "IntervalRule", attr_name |-> attr_name,
        left_rule |-> left_rule, right_rule |-> right_rule]

\* MergeSameSign that keeps the value of the receiver
MergeSameSignKeepSelf(self, rule) ==
  ContinuousRule(self.attr_name, self.sign, self.value, FALSE)

\* ContinuousRule.merge_with, both rules of the same sign
MergeSameSign(self, rule) ==
  IF self.sign = TRUE
  THEN LET larger == IF self.value > rule.value THEN self.value ELSE rule.value
       IN ContinuousRule(self.attr_name, self.sign, larger, FALSE)
  ELSE LET smaller == IF self.value < rule.value THEN self.value ELSE rule.value
       IN ContinuousRule(self.attr_name, self.sign, smaller, FALSE)

\* MergeOppositeSigns that puts the receiver on the left
MergeOppositeSignsSelfFirst(self, rule) ==
  IntervalRule(self.attr_name, self, rule)

\* ContinuousRule.merge_with, the rules of different signs
MergeOppositeSigns(self, rule) ==
  LET lt_rule == IF self.sign = FALSE THEN self ELSE rule
      gt_rule == IF lt_rule # self THEN self ELSE rule
  IN IntervalRule(self.attr_name, gt_rule, lt_rule)

\* ContinuousMergeWith that takes every rule for a ContinuousRule
ContinuousMergeWithAny(self, rule) ==
  IF rule.kind = "IntervalRule" THEN IntervalRule(self.attr_name, self, self)
  ELSE IF self.sign = rule.sign THEN MergeSameSign(self, rule)
  ELSE MergeOppositeSigns(self, rule)

\* ContinuousRule.merge_with.  NotImplemented is not callable, so the raise
\* statement raises the TypeError of calling it.
ContinuousMergeWith(self, rule) ==
  IF rule.kind # "ContinuousRule" THEN Raised("TypeError")
  ELSE IF self.sign = rule.sign THEN MergeSameSign(self, rule)
  ELSE MergeOppositeSigns(self, rule)

\* IntervalMergeWith that answers every rule with the receiver
IntervalMergeWithNothing(self, rule) == self

\* IntervalRule.merge_with; it returns None when no branch is taken
IntervalMergeWith(self, rule) ==
  IF rule.kind = "ContinuousRule"
  THEN IF rule.sign
       THEN IntervalRule(self.attr_name,
                         ContinuousMergeWith(self.left_rule, rule),
                         self.right_rule)
       ELSE IntervalRule(self.attr_name, self.left_rule,
                         ContinuousMergeWith(self.right_rule, rule))
  ELSE IF rule.kind = "IntervalRule"
  THEN IntervalRule(self.attr_name,
                    ContinuousMergeWith(self.left_rule, rule.left_rule),
                    ContinuousMergeWith(self.right_rule, rule.right_rule))
  ELSE None

\* DiscreteRule.merge_with
DiscreteMergeWith(self, rule) == rule

\* self.merge_with(rule), dispatched on the class of self; None has no
\* merge_with attribute
MergeWith(self, rule) ==
  CASE self.kind = "ContinuousRule" -> ContinuousMergeWith(self, rule)
    [] self.kind = "IntervalRule" -> IntervalMergeWith(self, rule)
    [] self.kind = "DiscreteRule" -> DiscreteMergeWith(self, rule)
    [] OTHER -> Raised("AttributeError")

\* the rules merge_with is called on and with: every rule on x, and two
\* rules on another attribute
ContinuousRules ==
  {ContinuousRule("x", gt, v, i) : gt \in BOOLEAN, v \in Values, i \in BOOLEAN}
    \cup {ContinuousRule("y", gt, 1, FALSE) : gt \in BOOLEAN}
IntervalRules ==
  {IntervalRule("x", ContinuousRule("x", TRUE, l[1], l[2]),
                ContinuousRule("x", FALSE, r[1], r[2])) :
     l \in Values \X BOOLEAN, r \in Values \X BOOLEAN}
DiscreteRules ==
  {DiscreteRule("x", eq, 1) : eq \in BOOLEAN}
AllRules == ContinuousRules \cup IntervalRules \cup DiscreteRules

(***************************************************************************)
(* SklTreeAdapter.rules over a binary tree whose splits are continuous:    *)
(* t.adapter names the children arrays, t.feature and t.threshold are the  *)
(* arrays of the same names, given for the nodes that have children.       *)
(***************************************************************************)
SklAdapters == {"Balanced", "Skewed"}
Internal(a) == {n \in Labels(a) : Children(a)[n] # <<>>}

\* _left_child(node)
LeftChild(t, node) == Children(t.adapter)[node][1]

\* the keys of the OrderedDict, in order
Keys(pr) == [i \in 1..Len(pr) |-> pr[i][1]]
HasKey(pr, k) == \E i \in 1..Len(pr) : pr[i][1] = k
Get(pr, k) == pr[CHOOSE i \in 1..Len(pr) : pr[i][1] = k][2]
Without(pr, k) == SelectSeq(pr, LAMBDA e : e[1] # k)

\* pr[k] = v: a new key goes to the end, an old key keeps its place
SetItem(pr, k, v) ==
  IF HasKey(pr, k)
  THEN [i \in 1..Len(pr) |-> IF pr[i][1] = k THEN <<k, v>> ELSE pr[i]]
  ELSE Append(pr, <<k, v>>)

\* MoveToEnd that leaves the key where it is
MoveToEndNever(pr, k) == pr

\* pr.move_to_end(k)
MoveToEnd(pr, k) == Append(Without(pr, k), <<k, Get(pr, k)>>)

\* OrderedDict([(r.attr_name, r) for r in rules])
RECURSIVE OrderedDict(_)
OrderedDict(rules) ==
  IF rules = <<>> THEN <<>>
  ELSE SetItem(OrderedDict(Front(rules)), Last(rules).attr_name, Last(rules))

\* list(pr.values())
ValuesOf(pr) == [i \in 1..Len(pr) |-> pr[i][2]]

\* the body of rules(node) for a node that is not the root, given the list
\* rules(parent) returned: the list it returns, or raised if merge_with raised
RulesOfChild(t, node, parent_rules) ==
  LET parent == AdapterParent(t.adapter, node)
      pr == OrderedDict(parent_rules)
      is_left_child == LeftChild(t, parent) = node
      attr_name == t.feature[parent]
      sign == ~is_left_child
      value == t.threshold[parent]
      new_rule == ContinuousRule(attr_name, sign, value, is_left_child)
  IN IF HasKey(pr, attr_name)
     THEN LET m == MergeWith(Get(pr, attr_name), new_rule)
          IN IF IsRaised(m) THEN [raised |-> TRUE, list |-> <<>>]
             ELSE [raised |-> FALSE,
                   list |-> ValuesOf(MoveToEnd(SetItem(pr, attr_name, m),
                                               attr_name))]
     ELSE [raised |-> FALSE, list |-> ValuesOf(SetItem(pr, attr_name, new_rule))]

\* rules(node) under lru_cache: cache is label -> returned list; a call that
\* raises stores nothing
RECURSIVE Rules(_, _, _)
Rules(cache, t, node) ==
  IF node \in DOMAIN cache THEN cache
  ELSE IF node = root THEN Ext(cache, node, <<>>)
  ELSE LET parent == AdapterParent(t.adapter, node)
           c == Rules(cache, t, parent)
       IN IF parent \notin DOMAIN c THEN c
          ELSE LET rs == RulesOfChild(t, node, c[parent])
               IN IF rs.raised THEN c ELSE Ext(c, node, rs.list)

(***************************************************************************)
(* The scenario of the depth-limit walk-through: the limits passed to      *)
(* set_depth_limit right after set_tree.  scenario.pos counts the calls    *)
(* made since set_tree while they are exactly the first calls of it.       *)
(***************************************************************************)
DepthLimitScenario == <<0, 2, 0, 2>>

ScenarioStep(sc, depth) ==
  IF sc.on /\ sc.pos < Len(DepthLimitScenario)
           /\ DepthLimitScenario[sc.pos + 1] = depth
  THEN [on |-> TRUE, pos |-> sc.pos + 1]
  ELSE [on |-> FALSE, pos |-> 0]

(***************************************************************************)
(* Operations of the viewer.                                               *)
(***************************************************************************)
\* PythagorasTree.__init__: an engine that has not been called
EngineNew(a) ==
  /\ eng_adapter = a
  /\ slopes = <<>>
  /\ squares = <<>>
  /\ prev_angles = <<>>
  /\ alphas = <<>>
  /\ start = {}
  /\ clean_start = TRUE
  /\ calls = 0
  /\ nodes = <<>>
  /\ result = {}

\* no rule has been merged, no adapter built, no hover event delivered
RulesIdle ==
  /\ self_rule = NoCall
  /\ arg_rule = NoCall
  /\ merged = NoCall

SklIdle ==
  /\ skl_tree = [adapter |-> "None"]
  /\ rules_cache = <<>>

HoverIdle ==
  /\ timer_active = FALSE
  /\ connections = <<>>
  /\ restored = <<>>

\* __init__ with the default arguments: no adapter, depth_limit = 0
ViewerInit ==
  /\ tree_adapter = "None"
  /\ tree = {}
  /\ gen = 0
  /\ depth_limit = 0
  /\ drawn_nodes = <<>>
  /\ frontier = <<>>
  /\ square_objects = <<>>
  /\ graphics_item = {}
  /\ scene = {}
  /\ shown = {}
  /\ events = <<>>
  /\ created = <<>>
  /\ scenario = [on |-> FALSE, pos |-> 0]

Init == ViewerInit /\ EngineNew("None") /\ RulesIdle /\ SklIdle /\ HoverIdle

Install(st) ==
  /\ drawn_nodes' = st.drawn_nodes
  /\ frontier' = st.frontier
  /\ square_objects' = st.square_objects
  /\ graphics_item' = st.graphics_item
  /\ scene' = st.scene
  /\ shown' = st.shown
  /\ events' = st.events
  /\ created' = st.created

\* set_depth_limit(depth)
SetDepthLimit(depth) ==
  /\ (tree # {} /\ drawn_nodes = <<>>) => Len(frontier) < MaxSeeds
  /\ depth_limit' = depth
  /\ \E st \in {DrawTree(ViewerState, tree, depth)} : Install(st)
  /\ scenario' = ScenarioStep(scenario, depth)
  /\ UNCHANGED <<tree_adapter, tree, gen>>
  /\ UNCHANGED <<engineVars, ruleVars, sklVars, hoverVars>>

\* clear(): the TreeNodes of the dropped tree are no longer referenced
ClearState ==
  [ClearScene(ViewerState) EXCEPT !.graphics_item = {}, !.created = <<>>]

Clear ==
  /\ tree_adapter' = "None"
  /\ tree' = {}
  /\ \E st \in {ClearState} : Install(st)
  /\ scenario' = [on |-> FALSE, pos |-> 0]
  /\ UNCHANGED <<gen, depth_limit>>
  /\ UNCHANGED <<engineVars, ruleVars, sklVars, hoverVars>>

\* set_tree(None)
SetTreeNone ==
  /\ tree_adapter' = "None"
  /\ tree' = {}
  /\ \E st \in {ClearState} : Install(st)
  /\ scenario' = [on |-> FALSE, pos |-> 0]
  /\ UNCHANGED <<gen, depth_limit>>
  /\ UNCHANGED <<engineVars, ruleVars, sklVars, hoverVars>>

\* _calculate_tree: the root TreeNode of a freshly built tree
CalculateTree(a, g) == TreeNode(a, g, root)

\* set_tree(tree_adapter) with an adapter: clear, build the tree,
\* set_depth_limit(max_depth) and a second _draw_tree
SetTree(a) ==
  /\ gen < MaxGen
  /\ gen' = gen + 1
  /\ tree_adapter' = a
  /\ tree' = {CalculateTree(a, gen + 1)}
  /\ depth_limit' = max_depth(a)
  /\ \E cleared \in {[ClearState EXCEPT !.created = [l \in Labels(a) |-> 0]]} :
       \E first \in {DrawTree(cleared, tree', max_depth(a))} :
         \E second \in {DrawTree(first, tree', max_depth(a))} : Install(second)
  /\ scenario' = [on |-> TRUE, pos |-> 0]
  /\ UNCHANGED <<engineVars, ruleVars, sklVars, hoverVars>>

Next ==
  \/ \E depth \in Limits : SetDepthLimit(depth)
  \/ \E a \in Adapters : SetTree(a)
  \/ SetTreeNone
  \/ Clear

Spec == Init /\ [][Next]_vars

(***************************************************************************)
(* Operations of the layout engine: a PythagorasTree is constructed and    *)
(* pythagoras_tree is called on it from outside, with the initial square.  *)
(***************************************************************************)
LayoutInit ==
  /\ ViewerInit /\ RulesIdle /\ SklIdle /\ HoverIdle
  /\ \E a \in LayoutAdapters : EngineNew(a)

\* PythagorasTree(): a new engine replaces the old one
NewEngine ==
  /\ calls > 0
  /\ slopes' = <<>>
  /\ squares' = <<>>
  /\ prev_angles' = <<>>
  /\ alphas' = <<>>
  /\ start' = {}
  /\ clean_start' = TRUE
  /\ calls' = 0
  /\ nodes' = <<>>
  /\ result' = {}
  /\ UNCHANGED eng_adapter
  /\ UNCHANGED <<viewerVars, ruleVars, sklVars, hoverVars>>

\* a top-level call pythagoras_tree(tree, node, InitialSquare)
PythagorasTreeCall(node) ==
  /\ node \in Labels(eng_adapter)
  /\ calls < MaxCalls
  /\ calls' = calls + 1
  /\ start' = {node}
  /\ clean_start' = (node = root \/ slopes = <<>>)
  /\ \E acc \in {PythagorasTreeRec(eng_adapter, node, InitialSquare,
                      [slopes |-> slopes, squares |-> <<>>,
                       prev_angles |-> <<>>, alphas |-> <<>>,
                       nodes |-> <<>>, obj |-> 0, children |-> <<>>])} :
       /\ nodes' = acc.nodes
       /\ result' = {acc.obj}
       /\ slopes' = acc.slopes
       /\ squares' = acc.squares
       /\ prev_angles' = acc.prev_angles
       /\ alphas' = acc.alphas
  /\ UNCHANGED eng_adapter
  /\ UNCHANGED <<viewerVars, ruleVars, sklVars, hoverVars>>

LayoutNext ==
  \/ \E node \in AllLabels : PythagorasTreeCall(node)
  \/ NewEngine

LayoutSpec == LayoutInit /\ [][LayoutNext]_vars

(***************************************************************************)
(* Operations on rules: merge_with is called on a rule, and its result is  *)
(* stored in place of the receiver as rules() does (pr[k] = pr[k].merge_   *)
(* with(new_rule)).                                                        *)
(***************************************************************************)
MergeInit ==
  /\ ViewerInit /\ EngineNew("None") /\ SklIdle /\ HoverIdle
  /\ self_rule \in AllRules
  /\ arg_rule = NoCall
  /\ merged = NoCall

\* merged = self_rule.merge_with(rule)
CallMergeWith(rule) ==
  /\ arg_rule' = rule
  /\ merged' = MergeWith(self_rule, rule)
  /\ UNCHANGED self_rule
  /\ UNCHANGED <<viewerVars, engineVars, sklVars, hoverVars>>

\* pr[attr_name] = (what merge_with returned)
StoreMerged ==
  /\ merged.kind \notin {"no call", "raised"}
  /\ self_rule' = merged
  /\ arg_rule' = NoCall
  /\ merged' = NoCall
  /\ UNCHANGED <<viewerVars, engineVars, sklVars, hoverVars>>

MergeNext ==
  \/ \E rule \in AllRules : CallMergeWith(rule)
  \/ StoreMerged

MergeSpec == MergeInit /\ [][MergeNext]_vars

(***************************************************************************)
(* Operations of the adapter: rules(node) is called for any node.          *)
(***************************************************************************)
RulesInit ==
  /\ ViewerInit /\ EngineNew("None") /\ RulesIdle /\ HoverIdle
  /\ \E a \in SklAdapters :
       \E feature \in [Internal(a) -> AttrNames] :
         \E threshold \in [Internal(a) -> Values] :
           skl_tree = [adapter |-> a, feature |-> feature,
                       threshold |-> threshold]
  /\ rules_cache = <<>>

\* rules(node)
CallRules(node) ==
  /\ node \in Labels(skl_tree.adapter)
  /\ node \notin DOMAIN rules_cache
  /\ rules_cache' = Rules(rules_cache, skl_tree, node)
  /\ UNCHANGED skl_tree
  /\ UNCHANGED <<viewerVars, engineVars, ruleVars, hoverVars>>

RulesNext == \E node \in AllLabels : CallRules(node)

RulesSpec == RulesInit /\ [][RulesNext]_vars

(***************************************************************************)
(* Hover events on the items, and the expiry of the shared timer.          *)
(***************************************************************************)
HoverItems == Labels("Chain")

HoverInit ==
  /\ ViewerInit /\ EngineNew("None") /\ RulesIdle /\ SklIdle
  /\ HoverIdle

\* item.hoverEnterEvent: timer.stop()
HoverEnter(item) ==
  /\ timer_active' = FALSE
  /\ restored' = <<>>
  /\ UNCHANGED connections
  /\ UNCHANGED <<viewerVars, engineVars, ruleVars, sklVars>>

\* item.hoverLeaveEvent: timer.timeout.connect(lambda ...); timer.start(250)
HoverLeave(item) ==
  /\ Len(connections) < MaxLeaves
  /\ connections' = Append(connections, item)
  /\ timer_active' = TRUE
  /\ restored' = <<>>
  /\ UNCHANGED <<viewerVars, engineVars, ruleVars, sklVars>>

\* the single-shot timer expires: timeout is emitted and every connected
\* slot is called, in the order of connection
Timeout ==
  /\ timer_active
  /\ timer_active' = FALSE
  /\ restored' = connections
  /\ UNCHANGED connections
  /\ UNCHANGED <<viewerVars, engineVars, ruleVars, sklVars>>

HoverNext ==
  \/ \E item \in HoverItems : HoverEnter(item)
  \/ \E item \in HoverItems : HoverLeave(item)
  \/ Timeout

HoverSpec == HoverInit /\ [][HoverNext]_vars

(***************************************************************************)
(* Vocabulary of the properties.                                           *)
(***************************************************************************)
HasTree == tree # {}

\* the TreeNodes of the current tree
Node(l) == TreeNode(tree_adapter, gen, l)
NodesAtDepth(d) ==
  {Node(l) : l \in {k \in Labels(tree_adapter) : Depth(tree_adapter, k) = d}}
NodesUpTo(d) ==
  {Node(l) : l \in {k \in Labels(tree_adapter) : Depth(tree_adapter, k) <= d}}

NodesOf(q) == {q[i][2] : i \in 1..Len(q)}
Handles == {square_objects[l] : l \in DOMAIN square_objects}
EventsOf(ev, kinds) == {i \in 1..Len(ev) : ev[i][1] \in kinds}
EventNodes(ev, kinds) == {ev[i][2] : i \in EventsOf(ev, kinds)}
Count(ev, kind) == Cardinality(EventsOf(ev, {kind}))
IsPrefix(s, t) == Len(s) <= Len(t) /\ s = SubSeq(t, 1, Len(s))
NodeDepth(n) == Depth(n.adapter, n.label)

\* the TreeNodes at depth d in breadth-first order, each with its depth
RECURSIVE Level(_)
Level(d) ==
  IF d <= 0 THEN <<(<<0, Node(root)>>)>>
  ELSE LET up == Level(d - 1)
           F[i \in 0..Len(up)] ==
             IF i = 0 THEN <<>> ELSE ExtendFrontier(F[i - 1], up[i][1], up[i][2])
       IN F[Len(up)]

(***************************************************************************)
(* C1: with a tree set, the nodes in _drawn_nodes, and equally the nodes   *)
(* whose graphics item exists and is shown, are exactly the tree nodes of  *)
(* depth <= the limit of the last set_depth_limit call, whatever limits    *)
(* were used before.                                                       *)
(***************************************************************************)
C1_DrawnIsDepthPrefix ==
  HasTree =>
    /\ NodesOf(drawn_nodes) = NodesUpTo(depth_limit)
    /\ Handles \cap shown = NodesUpTo(depth_limit)

\* the limit was lowered and raised again to an inner level of the tree
C1_Witness ==
  /\ tree_adapter = "Skewed"
  /\ depth_limit = 2
  /\ Count(events, "show") > 0
  /\ Cardinality(NodesOf(drawn_nodes)) = 5

(***************************************************************************)
(* C2: between set_tree and the next clear/set_tree at most one graphics   *)
(* item is constructed per node: set_depth_limit removes no entry of       *)
(* _square_objects, and it constructs an item only for a label that has    *)
(* none (a node that has one is shown).                                    *)
(***************************************************************************)
C2_CreateAtMostOnce ==
  [][/\ \A l \in DOMAIN created' : created'[l] <= 1
     /\ (HasTree /\ tree' = tree) =>
          /\ \A l \in DOMAIN square_objects :
                l \in DOMAIN square_objects' /\ square_objects'[l] = square_objects[l]
          /\ \A n \in EventNodes(events', {"create"}) :
                n.label \notin DOMAIN square_objects
          /\ \A n \in EventNodes(events', {"show"}) :
                n.label \in DOMAIN square_objects]_vars

\* a node that was hidden is materialized again: shown, still created once
C2_Witness ==
  /\ HasTree
  /\ \E n \in EventNodes(events, {"show"}) : created[n.label] = 1
  /\ depth_limit > 0

(***************************************************************************)
(* C3 as stated: on the 7-node balanced tree the calls set_depth_limit(0), *)
(* (2), (0), (2) made after set_tree leave only the root materialized,     *)
(* then emit 6 create and 0 hide, then 6 hide and 0 create, then 6 show    *)
(* and 0 create.                                                           *)
(***************************************************************************)
C3_ScenarioAsStated ==
  (tree_adapter = "Balanced" /\ scenario.on) =>
    /\ scenario.pos = 1 => NodesOf(drawn_nodes) = {Node(root)}
    /\ scenario.pos = 2 =>
          /\ NodesOf(drawn_nodes) = NodesUpTo(2)
          /\ Count(events, "create") = 6
          /\ Count(events, "hide") = 0
    /\ scenario.pos = 3 =>
          /\ Count(events, "hide") = 6
          /\ Count(events, "create") = 0
    /\ scenario.pos = 4 =>
          /\ Count(events, "show") = 6
          /\ Count(events, "create") = 0

(***************************************************************************)
(* C3 amended: set_tree has already constructed the 7 items (it draws at   *)
(* max_depth), so the first call emits 6 hide and leaves only the root     *)
(* materialized, the second call emits 6 show, 0 create and 0 hide, the    *)
(* third 6 hide and nothing else, the fourth 6 show and nothing else.      *)
(***************************************************************************)
C3_ScenarioAmended ==
  (tree_adapter = "Balanced" /\ scenario.on) =>
    /\ scenario.pos = 1 =>
          /\ NodesOf(drawn_nodes) = {Node(root)}
          /\ Handles \cap shown = {Node(root)}
          /\ Count(events, "hide") = 6 /\ Len(events) = 6
    /\ scenario.pos = 2 =>
          /\ NodesOf(drawn_nodes) = NodesUpTo(2)
          /\ Cardinality(NodesOf(drawn_nodes)) = 7
          /\ Count(events, "show") = 6 /\ Len(events) = 6
    /\ scenario.pos = 3 =>
          /\ Count(events, "hide") = 6 /\ Len(events) = 6
    /\ scenario.pos = 4 =>
          /\ Count(events, "show") = 6 /\ Len(events) = 6

\* the four calls of the scenario have been made
C3_Witness ==
  /\ tree_adapter = "Balanced"
  /\ scenario.on
  /\ scenario.pos = Len(DepthLimitScenario)

(***************************************************************************)
(* C4 as stated: with a tree set and a negative limit, no node is in       *)
(* _drawn_nodes, every existing item is hidden and the frontier holds the  *)
(* root at depth 0.                                                        *)
(***************************************************************************)
C4_NegativeLimitAsStated ==
  (HasTree /\ depth_limit < 0) =>
    /\ drawn_nodes = <<>>
    /\ Handles \cap shown = {}
    /\ \E i \in 1..Len(frontier) : frontier[i] = <<0, Node(root)>>

(***************************************************************************)
(* C5: set_tree(adapter) with an adapter leaves, from any state, the limit *)
(* at adapter.max_depth, exactly the new tree's nodes of depth <=          *)
(* max_depth in _drawn_nodes, one create event for each of them, and no    *)
(* node or item of an earlier tree in _drawn_nodes, _frontier or           *)
(* _square_objects.                                                        *)
(***************************************************************************)
C5_SetTreeRebuilds ==
  [][(tree' # tree /\ tree' # {}) =>
       /\ depth_limit' = max_depth(tree_adapter')
       /\ NodesOf(drawn_nodes') =
            {TreeNode(tree_adapter', gen', l) : l \in Labels(tree_adapter')}
       /\ Len(drawn_nodes') = Cardinality(Labels(tree_adapter'))
       /\ Len(events') = Len(drawn_nodes')
       /\ \A i \in 1..Len(events') : events'[i] = <<"create", drawn_nodes'[i][2]>>
       /\ \A l \in Labels(tree_adapter') : created'[l] = 1
       /\ \A n \in NodesOf(drawn_nodes') \cup NodesOf(frontier') \cup
                    {square_objects'[l] : l \in DOMAIN square_objects'} :
             n.gen = gen']_vars

\* a second tree was set while part of the first one was hidden
C5_Witness ==
  /\ gen = 2
  /\ scenario = [on |-> TRUE, pos |-> 0]
  /\ tree_adapter = "Skewed"
  /\ \E n \in scene : n.gen = 1 /\ n.adapter = "Balanced"

(***************************************************************************)
(* C6 as stated: after clear() or set_tree(None) the viewer has no tree    *)
(* and no adapter, _drawn_nodes, _frontier and _square_objects are empty,  *)
(* and every item constructed since the tree was set, shown or hidden, is  *)
(* out of the scene.                                                       *)
(***************************************************************************)
C6_ClearAsStated ==
  ~HasTree =>
    /\ tree_adapter = "None"
    /\ drawn_nodes = <<>>
    /\ frontier = <<>>
    /\ square_objects = <<>>
    /\ scene = {}

(***************************************************************************)
(* C7: one step of the limit touches only the boundary layer.  From limit  *)
(* L >= 0, set_depth_limit(L+1) emits create/show for exactly the nodes of *)
(* depth L+1 and no hide, set_depth_limit(L-1) emits hide for exactly the  *)
(* nodes of depth L and no create/show; the drawn entries of the other     *)
(* depths stay in place.                                                   *)
(***************************************************************************)
C7_StepTouchesBoundary ==
  [][(HasTree /\ tree' = tree /\ depth_limit >= 0) =>
       /\ depth_limit' = depth_limit + 1 =>
            /\ EventsOf(events', {"hide"}) = {}
            /\ EventNodes(events', {"create", "show"}) = NodesAtDepth(depth_limit + 1)
            /\ IsPrefix(drawn_nodes, drawn_nodes')
            /\ \A i \in (Len(drawn_nodes) + 1)..Len(drawn_nodes') :
                  drawn_nodes'[i][1] = depth_limit + 1
       /\ depth_limit' = depth_limit - 1 =>
            /\ EventsOf(events', {"create", "show"}) = {}
            /\ EventNodes(events', {"hide"}) = NodesAtDepth(depth_limit)
            /\ IsPrefix(drawn_nodes', drawn_nodes)
            /\ \A i \in (Len(drawn_nodes') + 1)..Len(drawn_nodes) :
                  drawn_nodes[i][1] = depth_limit]_vars

\* the limit went one step, over a layer that is not the last one
C7_Witness ==
  /\ tree_adapter = "Skewed"
  /\ depth_limit = 1
  /\ EventNodes(events, {"hide"}) = NodesAtDepth(2)
  /\ Len(events) = 2

(***************************************************************************)
(* C8: the entries of _drawn_nodes are in non-decreasing depth order and   *)
(* each recorded depth is the node's depth in the tree, so the back entry  *)
(* is a deepest drawn node.                                                *)
(***************************************************************************)
C8_DrawnSortedByDepth ==
  /\ \A i \in 1..Len(drawn_nodes) : drawn_nodes[i][1] = NodeDepth(drawn_nodes[i][2])
  /\ \A i \in 1..Len(drawn_nodes) : \A j \in 1..Len(drawn_nodes) :
        i < j => drawn_nodes[i][1] <= drawn_nodes[j][1]

\* four depths are drawn after the limit was lowered and raised again
C8_Witness ==
  /\ tree_adapter = "Skewed"
  /\ Len(drawn_nodes) = 7
  /\ Count(events, "show") > 0

(***************************************************************************)
(* C9 as stated: with a tree set and a limit L >= 0 the frontier holds     *)
(* exactly the tree nodes of depth L+1, each once, with its depth, in the  *)
(* children order of their parents.                                        *)
(***************************************************************************)
C9_FrontierAsStated ==
  (HasTree /\ depth_limit >= 0) => frontier = Level(depth_limit + 1)

(***************************************************************************)
(* C10: in a layout traversal (one that begins with an empty memo: a new   *)
(* engine, or a call for the root, which clears it), for every node whose  *)
(* children's weights sum to 1, the prior angle used for the k-th child is *)
(* the sum of the alphas (weight * pi) of the children 0..k-1 of that node *)
(* and of nothing else, so the arcs [prior, prior + alpha] of the children *)
(* are consecutive, do not overlap and cover [0, pi].  Angles are whole    *)
(* multiples of pi/4.                                                      *)
(***************************************************************************)
ChildrenOf(p) == Children(eng_adapter)[p]
WeightsSumToOne(p) ==
  SumSeq([k \in 1..Len(ChildrenOf(p)) |-> Weight(eng_adapter, ChildrenOf(p)[k])])
    = WeightUnit
AlphasBefore(p, k) ==
  SumSeq([j \in 1..(k - 1) |-> Alpha(Weight(eng_adapter, ChildrenOf(p)[j]))])

C11_SecondCallAsStated ==
  [][(start # {} /\ start' = start /\ calls' = calls + 1) =>
       /\ squares' = squares
       /\ prev_angles' = prev_angles]_vars

(***************************************************************************)
(* C12: the TreeNodes of a call for the adapter's root: one per adapter    *)
(* node; each one's children are the TreeNodes of adapter.children(label), *)
(* in that order; the parent of every TreeNode but the returned one is the *)
(* TreeNode object that lists it as a child, and the parent of the         *)
(* returned one is the label -1.                                           *)
(***************************************************************************)
ChildLabels(k) == [i \in 1..Len(nodes[k].children) |-> nodes[nodes[k].children[i]].label]

C12_TreeNodeStructure ==
  start = {root} =>
    /\ \A l \in Labels(eng_adapter) :
          Cardinality({k \in DOMAIN nodes : nodes[k].label = l}) = 1
    /\ Len(nodes) = Cardinality(Labels(eng_adapter))
    /\ \A r \in result :
          /\ nodes[r].label = root
          /\ nodes[r].parent = <<"label", ROOT_PARENT_INDEX>>
    /\ \A k \in DOMAIN nodes :
          /\ ChildLabels(k) = Children(eng_adapter)[nodes[k].label]
          /\ nodes[k].square = squares[nodes[k].label]
          /\ k \notin result =>
               /\ nodes[k].parent[1] = "node"
               /\ \E i \in 1..Len(nodes[nodes[k].parent[2]].children) :
                     nodes[nodes[k].parent[2]].children[i] = k

\* the tree with one, two and three children per node was built from its root
C12_Witness ==
  /\ eng_adapter = "Ternary"
  /\ start = {root}
  /\ Len(nodes) = 7
  /\ \E k \in DOMAIN nodes : nodes[k].label = 6 /\ nodes[k].parent[1] = "node"

(***************************************************************************)
(* C13: a.merge_with(b) for ContinuousRules a and b on the same attribute  *)
(* and of the same direction returns a ContinuousRule on that attribute    *)
(* and of that direction whose value is the larger of the two values when  *)
(* both are greater-than and the smaller when both are less-than;          *)
(* b.merge_with(a) returns the same rule; a and b are as they were.        *)
(***************************************************************************)
IsCall(rule) == rule.kind # "no call"
BothContinuous(a, b) == a.kind = "ContinuousRule" /\ b.kind = "ContinuousRule"
Larger(v, w) == IF v >= w THEN v ELSE w
Smaller(v, w) == IF v <= w THEN v ELSE w

C13_SameDirectionMerge ==
  [][(IsCall(arg_rule') /\ BothContinuous(self_rule, arg_rule')
        /\ self_rule.attr_name = arg_rule'.attr_name
        /\ self_rule.sign = arg_rule'.sign) =>
       /\ merged'.kind = "ContinuousRule"
       /\ merged'.attr_name = self_rule.attr_name
       /\ merged'.sign = self_rule.sign
       /\ merged'.value = IF self_rule.sign
                          THEN Larger(self_rule.value, arg_rule'.value)
                          ELSE Smaller(self_rule.value, arg_rule'.value)
       /\ merged' = MergeWith(arg_rule', self_rule)
       /\ self_rule' = self_rule]_vars

\* x > 1 was merged with x > 3, and the bound of the argument was chosen
C13_Witness ==
  /\ self_rule = ContinuousRule("x", TRUE, 1, FALSE)
  /\ arg_rule = ContinuousRule("x", TRUE, 3, FALSE)
  /\ merged = ContinuousRule("x", TRUE, 3, FALSE)

(***************************************************************************)
(* C14: a.merge_with(b) for ContinuousRules a and b of different           *)
(* directions returns an IntervalRule whose left_rule is the greater-than  *)
(* rule of the two and whose right_rule is the less-than rule, each with   *)
(* its own value and inclusive flag, whichever of them is the receiver.    *)
(***************************************************************************)
C14_OppositeDirectionMerge ==
  [][(IsCall(arg_rule') /\ BothContinuous(self_rule, arg_rule')
        /\ self_rule.sign # arg_rule'.sign) =>
       /\ merged'.kind = "IntervalRule"
       /\ merged'.left_rule = (IF self_rule.sign THEN self_rule ELSE arg_rule')
       /\ merged'.right_rule = (IF self_rule.sign THEN arg_rule' ELSE self_rule)
       /\ merged'.left_rule.sign = TRUE
       /\ merged'.right_rule.sign = FALSE
       /\ MergeWith(arg_rule', self_rule).left_rule = merged'.left_rule
       /\ MergeWith(arg_rule', self_rule).right_rule = merged'.right_rule]_vars

\* the receiver was the upper bound x <= 3 and the argument x > 1
C14_Witness ==
  /\ self_rule = ContinuousRule("x", FALSE, 3, TRUE)
  /\ arg_rule = ContinuousRule("x", TRUE, 1, FALSE)
  /\ merged.kind = "IntervalRule"
  /\ merged.left_rule = arg_rule
  /\ merged.right_rule = self_rule

(***************************************************************************)
(* C15: for an IntervalRule I whose left_rule is a greater-than rule with  *)
(* value l and whose right_rule is a less-than rule with value r:          *)
(* I.merge_with(greater-than rule v) has the lower bound max(l, v) and the *)
(* right_rule of I; I.merge_with(less-than rule v) has the upper bound     *)
(* min(r, v) and the left_rule of I; I.merge_with(interval (l2, r2)) has   *)
(* the bounds (max(l, l2), min(r, r2)).  The result is an IntervalRule     *)
(* whose left_rule is greater-than and whose right_rule is less-than.      *)
(***************************************************************************)
IsInterval(r) ==
  /\ r.kind = "IntervalRule"
  /\ r.left_rule.sign = TRUE
  /\ r.right_rule.sign = FALSE

C15_IntervalMerge ==
  [][(IsCall(arg_rule') /\ IsInterval(self_rule)) =>
       /\ (arg_rule'.kind = "ContinuousRule" /\ arg_rule'.sign) =>
            /\ IsInterval(merged')
            /\ merged'.left_rule.value =
                 Larger(self_rule.left_rule.value, arg_rule'.value)
            /\ merged'.right_rule = self_rule.right_rule
       /\ (arg_rule'.kind = "ContinuousRule" /\ ~arg_rule'.sign) =>
            /\ IsInterval(merged')
            /\ merged'.right_rule.value =
                 Smaller(self_rule.right_rule.value, arg_rule'.value)
            /\ merged'.left_rule = self_rule.left_rule
       /\ IsInterval(arg_rule') =>
            /\ IsInterval(merged')
            /\ merged'.left_rule.value =
                 Larger(self_rule.left_rule.value, arg_rule'.left_rule.value)
            /\ merged'.right_rule.value =
                 Smaller(self_rule.right_rule.value, arg_rule'.right_rule.value)]_vars

\* the interval (1, 3) was merged with the interval (2, 2): both bounds moved
C15_Witness ==
  /\ IsInterval(self_rule) /\ IsInterval(arg_rule) /\ IsInterval(merged)
  /\ self_rule.left_rule.value = 1 /\ self_rule.right_rule.value = 3
  /\ merged.left_rule.value = 2 /\ merged.right_rule.value = 2

(***************************************************************************)
(* C16: ContinuousRule.merge_with(other) with a DiscreteRule or an         *)
(* IntervalRule as other returns no rule: it raises, so the caller (the    *)
(* rule aggregation) has nothing to store, and the receiver is as it was.  *)
(***************************************************************************)
C16_ContinuousRejectsOthers ==
  [][(IsCall(arg_rule') /\ self_rule.kind = "ContinuousRule"
        /\ arg_rule'.kind \in {"DiscreteRule", "IntervalRule"}) =>
       /\ IsRaised(merged')
       /\ self_rule' = self_rule]_vars

\* a ContinuousRule was merged with an IntervalRule
C16_Witness ==
  /\ self_rule.kind = "ContinuousRule"
  /\ arg_rule.kind = "IntervalRule"
  /\ IsRaised(merged)

(***************************************************************************)
(* C17 as stated: IntervalRule.merge_with(other) with a DiscreteRule as    *)
(* other raises; it returns nothing that could be stored as the rule of    *)
(* the attribute.                                                          *)
(***************************************************************************)
C17_IntervalRejectsAsStated ==
  (self_rule.kind = "IntervalRule" /\ arg_rule.kind = "DiscreteRule") =>
    IsRaised(merged)

(***************************************************************************)
(* C18: rules(root) is empty.  For any other node of a tree with           *)
(* continuous splits, rules(node) holds exactly one rule per attribute     *)
(* split on along the path from the root to the node; the lower bound of   *)
(* that rule is the largest threshold among the right-branch (>) steps of  *)
(* the path on the attribute and its upper bound the smallest threshold    *)
(* among the left-branch (<=) steps; the rule of the attribute the node's  *)
(* parent splits on is the last of the list, and the other rules are in    *)
(* the order they have in rules(parent).                                   *)
(***************************************************************************)
Min(S) == CHOOSE x \in S : \A y \in S : x <= y

RECURSIVE Ancestors(_, _)
Ancestors(a, n) ==
  IF n = root THEN {} ELSE {AdapterParent(a, n)} \cup Ancestors(a, AdapterParent(a, n))

\* the child of the ancestor p through which the path to n goes
PathChild(a, p, n) ==
  CHOOSE c \in Ancestors(a, n) \cup {n} : c # root /\ AdapterParent(a, c) = p

\* the thresholds of the steps to the right (or to the left) on attr
StepValues(t, n, attr, right) ==
  {t.threshold[p] : p \in {q \in Ancestors(t.adapter, n) :
      /\ t.feature[q] = attr
      /\ (PathChild(t.adapter, q, n) # LeftChild(t, q)) = right}}

LowerBounds(rule) ==
  IF rule.kind = "IntervalRule" THEN {rule.left_rule.value}
  ELSE IF rule.sign THEN {rule.value} ELSE {}

UpperBounds(rule) ==
  IF rule.kind = "IntervalRule" THEN {rule.right_rule.value}
  ELSE IF rule.sign THEN {} ELSE {rule.value}

AttrsOf(rules) == [i \in 1..Len(rules) |-> rules[i].attr_name]

C18_RulesAggregate ==
  \A n \in DOMAIN rules_cache :
    LET rs == rules_cache[n]
        t == skl_tree
    IN IF n = root THEN rs = <<>>
       ELSE LET parent == AdapterParent(t.adapter, n)
                attrs == {t.feature[p] : p \in Ancestors(t.adapter, n)}
            IN /\ Len(rs) = Cardinality(attrs)
               /\ {rs[i].attr_name : i \in 1..Len(rs)} = attrs
               /\ \A i \in 1..Len(rs) :
                    LET gt == StepValues(t, n, rs[i].attr_name, TRUE)
                        lt == StepValues(t, n, rs[i].attr_name, FALSE)
                    IN /\ rs[i].kind \in {"ContinuousRule", "IntervalRule"}
                       /\ LowerBounds(rs[i]) = IF gt = {} THEN {} ELSE {Max(gt)}
                       /\ UpperBounds(rs[i]) = IF lt = {} THEN {} ELSE {Min(lt)}
               /\ Last(rs).attr_name = t.feature[parent]
               /\ parent \in DOMAIN rules_cache
               /\ AttrsOf(Front(rs)) =
                    SelectSeq(AttrsOf(rules_cache[parent]),
                              LAMBDA k : k # t.feature[parent])

\* the path right, right, left splits on x, y, x: the rule of x, merged
\* twice, has moved behind the rule of y
C18_Witness ==
  /\ skl_tree.adapter = "Skewed"
  /\ skl_tree.feature = [n \in {0, 2, 4} |-> IF n = 2 THEN "y" ELSE "x"]
  /\ skl_tree.threshold = [n \in {0, 2, 4} |-> IF n = 4 THEN 3 ELSE 1]
  /\ 5 \in DOMAIN rules_cache
  /\ AttrsOf(rules_cache[5]) = <<"y", "x">>
  /\ rules_cache[5][2].kind = "IntervalRule"
  /\ rules_cache[5][2].left_rule.value = 1
  /\ rules_cache[5][2].right_rule.value = 3

(***************************************************************************)
(* C19 as stated: an expiry of the shared timer runs the restore effect of *)
(* the most recent hover-leave, once, and of no other hover-leave: a leave *)
(* whose wait was interrupted by a later enter or leave never has its      *)
(* restore effect run.                                                     *)
(***************************************************************************)
C19_HoverDebounceAsStated ==
  restored # <<>> => restored = <<Last(connections)>>

(***************************************************************************)
(* C20 as stated: with a tree set, set_depth_limit(L) called in a state    *)
(* that the previous call left with the limit L (any integer L) emits no   *)
(* create, show or hide and leaves _drawn_nodes, _frontier and             *)
(* _square_objects as they are.                                            *)
(***************************************************************************)
C20_SameLimitAsStated ==
  [][(HasTree /\ tree' = tree /\ depth_limit' = depth_limit) =>
       /\ events' = <<>>
       /\ drawn_nodes' = drawn_nodes
       /\ frontier' = frontier
       /\ square_objects' = square_objects]_vars

(***************************************************************************)
(* C21 as stated: in every state reachable by set_tree, set_depth_limit    *)
(* (any integer limit) and clear, no node occurs more than once in         *)
(* _drawn_nodes, none occurs more than once in _frontier, and none is in   *)
(* both.                                                                   *)
(***************************************************************************)
NoDuplicates(q) ==
  \A i \in 1..Len(q) : \A j \in 1..Len(q) : i # j => q[i][2] # q[j][2]

C21_NoDuplicatesAsStated ==
  /\ NoDuplicates(drawn_nodes)
  /\ NoDuplicates(frontier)
  /\ NodesOf(drawn_nodes) \cap NodesOf(frontier) = {}

(***************************************************************************)
(* C22: whenever an operation constructs the graphics item of a node that  *)
(* is not the root, the item of its parent node was constructed before it  *)
(* for the same tree (earlier in the same operation, or by an earlier      *)
(* operation on this tree) and is still the parent's entry of              *)
(* _square_objects, so the constructor finds parent.graphics_item set.     *)
(***************************************************************************)
ParentNode(n) == TreeNode(n.adapter, n.gen, AdapterParent(n.adapter, n.label))

C22_ParentCreatedFirst ==
  [][\A i \in EventsOf(events', {"create"}) :
       LET n == events'[i][2]
       IN n.label # root =>
            /\ \/ (tree' = tree /\ ParentNode(n) \in graphics_item)
               \/ \E j \in 1..(i - 1) : events'[j] = <<"create", ParentNode(n)>>
            /\ ParentNode(n) \in graphics_item'
            /\ ParentNode(n).label \in DOMAIN square_objects'
            /\ square_objects'[ParentNode(n).label] = ParentNode(n)]_vars

\* a second tree was set: its leaves were constructed after their parents,
\* in one operation
C22_Witness ==
  /\ gen = 2
  /\ tree_adapter = "Balanced"
  /\ Count(events, "create") = 7
  /\ events[1] = <<"create", Node(root)>>
  /\ events[7] = <<"create", Node(6)>>

(***************************************************************************)
(* C23 as stated: the merge of two ContinuousRules of the same direction   *)
(* on one attribute has the inclusive flag of the rule whose value it      *)
(* takes, and so has the merged side of an IntervalRule that is merged     *)
(* with a ContinuousRule: an inclusive bound stays inclusive.              *)
(***************************************************************************)
\* the rule of a and b whose value the merge takes
Chosen(a, b) ==
  IF a.sign THEN (IF a.value > b.value THEN a ELSE b)
  ELSE (IF a.value < b.value THEN a ELSE b)

\* m has the flag of the rule chosen, or of either rule when the values are
\* the same
InclusiveKept(a, b, m) ==
  IF a.value = b.value THEN m.inclusive \in {a.inclusive, b.inclusive}
  ELSE m.inclusive = Chosen(a, b).inclusive

C23_InclusiveKeptAsStated ==
  /\ (BothContinuous(self_rule, arg_rule) /\ self_rule.sign = arg_rule.sign
        /\ self_rule.attr_name = arg_rule.attr_name) =>
       InclusiveKept(self_rule, arg_rule, merged)
  /\ (IsInterval(self_rule) /\ arg_rule.kind = "ContinuousRule") =>
       IF arg_rule.sign
       THEN InclusiveKept(self_rule.left_rule, arg_rule, merged.left_rule)
       ELSE InclusiveKept(self_rule.right_rule, arg_rule, merged.right_rule)

====
